---- MODULE Spec2Model ----
(***************************************************************************)
(* Model of the DOC_BUNDLE service: the /generate-bundle/ handler          *)
(* (src/app/main.py) and the two template-constrained generation pipelines *)
(* (src/app/generator.py).                                                  *)
(*                                                                         *)
(* Text is a sequence of tokens: one token per character for the inputs    *)
(* (" ", "\n", "{", "}", letters) and one token per run of fixed prompt    *)
(* text.  The handler is an `async def` that never awaits, so the event    *)
(* loop runs one request at a time from start to end; the model therefore  *)
(* has one handler position, pc.                                           *)
(*                                                                         *)
(* Library behaviour the source relies on:                                 *)
(*  - RecursiveCharacterTextSplitter strips leading/trailing whitespace    *)
(*    from every chunk and drops chunks that become empty;                 *)
(*  - Chroma.from_documents without a client or persist directory uses the *)
(*    process-wide in-memory store and the default collection name, so     *)
(*    every call adds to the same collection;                              *)
(*  - adding an empty list of documents performs no embedding request;     *)
(*    the store then either rejects the empty batch (ValueError) or        *)
(*    accepts it, depending on the installed version: both outcomes are    *)
(*    modelled;                                                            *)
(*  - the retriever embeds the query (a second embedding request) and      *)
(*    returns the DEFAULT_K nearest documents of the collection, in an     *)
(*    order fixed by the opaque embedding vectors;                         *)
(*  - str.format-style substitution inserts values literally.             *)
(*  Service calls are counted at the client-method level.                  *)
(***************************************************************************)
EXTENDS Integers, Sequences, FiniteSets

VARIABLES
    pc,                  \* position of the request handler
    cur,                 \* pipeline function currently executing: "ts" / "abap" / "none"
    nreq,                \* number of requests received by this process
    inv,                 \* number of pipeline invocations started by this process
    req,                 \* form fields of the current request
    collection,          \* process-wide Chroma collection: <<[content, owner]>>
    docs,                \* segments produced by the splitter in the current invocation
    retrieved_docs,      \* documents returned by the retriever in the current invocation
    retrieved_template,  \* joined page contents
    prompt,              \* formatted message content
    inflight,            \* network calls started and not yet returned
    status,              \* per pipeline of the current request
    calls,               \* per pipeline: service calls made, in order
    trace,               \* per pipeline: pipeline steps taken, in order
    svcFailed,           \* per pipeline: a service call of the invocation failed
    result,              \* per pipeline: text returned to the handler
    docx,                \* per pipeline: document buffer written by docx_writer
    archive,             \* entries of the in-memory ZIP
    response             \* what the endpoint answered for the current request

vars == <<pc, cur, nreq, inv, req, collection, docs, retrieved_docs,
          retrieved_template, prompt, inflight, status, calls, trace,
          svcFailed, result, docx, archive, response>>

-----------------------------------------------------------------------------
(* Bounds *)

MaxRequests == 2

(* Program constants *)

chunk_size == 20000
DEFAULT_K == 4

Pipelines == {"ts", "abap"}

Whitespace == {" ", "\n"}

Requirements == { <<"r">>, <<"{", "ts_template", "}">> }

Templates == { <<" ">>, <<"t">>, <<" ", "{", "x", "}", "\n">> }

GeneratedTexts == { <<"g">> }

NoText == <<"<none>">>

-----------------------------------------------------------------------------
(* Text helpers *)

RECURSIVE lstrip(_)
lstrip(s) ==
    IF s = <<>> THEN <<>>
    ELSE IF Head(s) \in Whitespace THEN lstrip(Tail(s)) ELSE s

RECURSIVE rstrip(_)
rstrip(s) ==
    IF s = <<>> THEN <<>>
    ELSE IF s[Len(s)] \in Whitespace THEN rstrip(SubSeq(s, 1, Len(s) - 1)) ELSE s

strip(s) == rstrip(lstrip(s))

RECURSIVE join(_, _)
join(sep, parts) ==
    IF parts = <<>> THEN <<>>
    ELSE IF Len(parts) = 1 THEN parts[1]
    ELSE parts[1] \o sep \o join(sep, Tail(parts))

\* RecursiveCharacterTextSplitter(chunk_size, chunk_overlap).split_documents
\* for a text that fits in one chunk: the pieces are merged back into one
\* chunk, which is stripped, and dropped when nothing is left.  Every
\* template of Templates is shorter than chunk_size.
split_documents(template) ==
    IF strip(template) = <<>> THEN <<>> ELSE <<strip(template)>>

\* Orders in which the retriever can return the k nearest documents of a
\* collection of n documents.
Rankings(n) ==
    LET m == IF n < DEFAULT_K THEN n ELSE DEFAULT_K
    IN  { f \in [1..m -> 1..n] : \A i, j \in 1..m : i # j => f[i] # f[j] }

-----------------------------------------------------------------------------
(* Prompt templates and formatting *)

TsPromptTemplate ==
    << "TS_ROLE", "REQUIREMENT:", "{", "requirement", "}", "\n\n",
       "TS_TEMPLATE_HEADER:", "{", "ts_template", "}", "\n\n",
       "TS_INSTRUCTIONS" >>

AbapPromptTemplate ==
    << "ABAP_ROLE", "REQUIREMENT:", "{", "requirement", "}", "\n\n",
       "ABAP_TEMPLATE_HEADER:", "{", "abap_template", "}", "\n\n",
       "ABAP_INSTRUCTIONS" >>

PromptTemplate(p) == IF p = "ts" THEN TsPromptTemplate ELSE AbapPromptTemplate

TemplateVar(p) == IF p = "ts" THEN "ts_template" ELSE "abap_template"

\* str.format over the template: a "{" name "}" field is replaced by the
\* value bound to name, everything else is copied.  The values are not
\* scanned.  (The templates of the source name only bound fields; a field
\* with no value, which the source never has, yields nothing here.)
RECURSIVE format_scan(_, _, _)
format_scan(tpl, kw, i) ==
    IF i > Len(tpl) THEN <<>>
    ELSE IF tpl[i] = "{" /\ i + 2 <= Len(tpl) /\ tpl[i + 2] = "}"
         THEN (IF tpl[i + 1] \in DOMAIN kw THEN kw[tpl[i + 1]] ELSE <<>>)
              \o format_scan(tpl, kw, i + 3)
         ELSE <<tpl[i]>> \o format_scan(tpl, kw, i + 1)

\* A prompt built by formatting twice: substituted values are scanned for
\* fields again.
format_messages_reparse(tpl, kw) == format_scan(format_scan(tpl, kw, 1), kw, 1)

format_messages(tpl, kw) == format_scan(tpl, kw, 1)

-----------------------------------------------------------------------------
(* Generation parameters *)

ModelName(p) == "gpt-4o"

Temperature_swapped(p) == IF p = "ts" THEN "0.2" ELSE "0.4"

Temperature(p) == IF p = "ts" THEN "0.4" ELSE "0.2"

FallbackMessage(p) ==
    IF p = "ts" THEN <<"No technical specification template found in RAG.">>
    ELSE <<"No ABAP template found in RAG.">>

TemplateOf(p) == IF p = "ts" THEN req.ts_template ELSE req.abap_template

EntryName(p) == IF p = "ts" THEN "technical_spec.docx" ELSE "abap_code.docx"

-----------------------------------------------------------------------------
NoReq == [requirement |-> <<>>, ts_template |-> <<>>, abap_template |-> <<>>]

Init ==
    /\ pc = "idle"
    /\ cur = "none"
    /\ nreq = 0
    /\ inv = 0
    /\ req = NoReq
    /\ collection = <<>>
    /\ docs = <<>>
    /\ retrieved_docs = <<>>
    /\ retrieved_template = <<>>
    /\ prompt = <<>>
    /\ inflight = {}
    /\ status = [p \in Pipelines |-> "not_started"]
    /\ calls = [p \in Pipelines |-> <<>>]
    /\ trace = [p \in Pipelines |-> <<>>]
    /\ svcFailed = [p \in Pipelines |-> FALSE]
    /\ result = [p \in Pipelines |-> NoText]
    /\ docx = [p \in Pipelines |-> NoText]
    /\ archive = <<>>
    /\ response = "none"

\* POST /generate-bundle/ : the handler starts and calls
\* generate_ts_from_requirement(requirement, ts_template).
ReceiveRequest ==
    /\ pc \in {"idle", "responded", "failed"}
    /\ nreq < MaxRequests
    /\ \E r \in Requirements, t \in Templates, a \in Templates :
          req' = [requirement |-> r, ts_template |-> t, abap_template |-> a]
    /\ nreq' = nreq + 1
    /\ cur' = "ts"
    /\ inv' = inv + 1
    /\ docs' = <<>>
    /\ retrieved_docs' = <<>>
    /\ retrieved_template' = <<>>
    /\ prompt' = <<>>
    /\ status' = [p \in Pipelines |-> IF p = "ts" THEN "running" ELSE "not_started"]
    /\ calls' = [p \in Pipelines |-> <<>>]
    /\ trace' = [p \in Pipelines |-> <<>>]
    /\ svcFailed' = [p \in Pipelines |-> FALSE]
    /\ result' = [p \in Pipelines |-> NoText]
    /\ docx' = [p \in Pipelines |-> NoText]
    /\ archive' = <<>>
    /\ response' = "none"
    /\ pc' = "split"
    /\ UNCHANGED <<collection, inflight>>

-----------------------------------------------------------------------------
(* Exception propagation and early return *)

\* A mutant of Raise: the failure is caught and the fallback text returned.
Raise_fallback(p) ==
    /\ status' = [status EXCEPT ![p] = "fallback"]
    /\ result' = [result EXCEPT ![p] = FallbackMessage(p)]
    /\ response' = response
    /\ pc' = "returned"

\* Neither pipeline function nor the handler has a try/except: an exception
\* raised inside a pipeline function ends the invocation and the request.
Raise(p) ==
    /\ status' = [status EXCEPT ![p] = "raised"]
    /\ result' = result
    /\ response' = "error"
    /\ pc' = "failed"

\* A mutant of ServiceFailed: the failed call is issued again.
ServiceFailed_retry(p, back) ==
    /\ svcFailed' = [svcFailed EXCEPT ![p] = TRUE]
    /\ status' = status
    /\ result' = result
    /\ response' = response
    /\ pc' = back

\* A service call that fails raises out of the client method.
ServiceFailed(p, back) ==
    /\ svcFailed' = [svcFailed EXCEPT ![p] = TRUE]
    /\ Raise(p)

\* A mutant of ReturnFallback: the handler gives up on the bundle.
ReturnFallback_abort(p) ==
    /\ result' = [result EXCEPT ![p] = FallbackMessage(p)]
    /\ status' = [status EXCEPT ![p] = "fallback"]
    /\ response' = "error"
    /\ pc' = "failed"

\* `return "No ... template found in RAG."`
ReturnFallback(p) ==
    /\ result' = [result EXCEPT ![p] = FallbackMessage(p)]
    /\ status' = [status EXCEPT ![p] = "fallback"]
    /\ response' = response
    /\ pc' = "returned"

Call(svc, op, p) ==
    [svc |-> svc, op |-> op,
     model |-> IF svc = "generation" THEN ModelName(p) ELSE "embedding",
     temperature |-> IF svc = "generation" THEN Temperature(p) ELSE "n/a"]

-----------------------------------------------------------------------------
(* build_template_retriever *)

\* documents = [Document(...)]; docs = splitter.split_documents(documents)
SplitDocuments ==
    /\ pc = "split"
    /\ docs' = split_documents(TemplateOf(cur))
    /\ pc' = "embed"
    /\ UNCHANGED <<cur, nreq, inv, req, collection, retrieved_docs,
                   retrieved_template, prompt, inflight, status, calls, trace,
                   svcFailed, result, docx, archive, response>>

\* Chroma.from_documents(docs, embedding): the embedding request for the
\* segments.  An empty list of segments is embedded without a request.
EmbedDocumentsStart ==
    /\ pc = "embed"
    /\ IF docs = <<>>
       THEN /\ pc' = "upsert"
            /\ UNCHANGED <<inflight, calls>>
       ELSE /\ inflight' = inflight \cup {Call("embedding", "embed_documents", cur)}
            /\ calls' = [calls EXCEPT ![cur] =
                            Append(@, Call("embedding", "embed_documents", cur))]
            /\ pc' = "embed_wait"
    /\ UNCHANGED <<cur, nreq, inv, req, collection, docs, retrieved_docs,
                   retrieved_template, prompt, status, trace, svcFailed,
                   result, docx, archive, response>>

EmbedDocumentsReturn ==
    /\ pc = "embed_wait"
    /\ inflight' = inflight \ {Call("embedding", "embed_documents", cur)}
    /\ \/ /\ pc' = "upsert"
          /\ UNCHANGED <<status, svcFailed, result, response>>
       \/ ServiceFailed(cur, "embed")
    /\ UNCHANGED <<cur, nreq, inv, req, collection, docs, retrieved_docs,
                   retrieved_template, prompt, calls, trace, docx, archive>>

\* Chroma.from_documents(docs, embedding): the segments are added to the
\* collection of the process-wide store; vectorstore.as_retriever().
Upsert ==
    /\ pc = "upsert"
    /\ IF docs = <<>>
       THEN /\ UNCHANGED <<collection, svcFailed>>
            /\ \/ Raise(cur) /\ UNCHANGED trace
               \/ /\ pc' = "retrieve"
                  /\ trace' = [trace EXCEPT ![cur] = Append(@, "build_index")]
                  /\ UNCHANGED <<status, result, response>>
       ELSE /\ collection' = collection \o
                   [i \in 1..Len(docs) |-> [content |-> docs[i], owner |-> inv]]
            /\ trace' = [trace EXCEPT ![cur] = Append(@, "build_index")]
            /\ pc' = "retrieve"
            /\ UNCHANGED <<status, svcFailed, result, response>>
    /\ UNCHANGED <<cur, nreq, inv, req, docs, retrieved_docs,
                   retrieved_template, prompt, inflight, calls, docx, archive>>

-----------------------------------------------------------------------------
(* generate_ts_from_requirement / generate_abap_code_from_requirement *)

\* retriever.get_relevant_documents(requirement): the query is embedded.
RetrieveStart ==
    /\ pc = "retrieve"
    /\ inflight' = inflight \cup {Call("embedding", "embed_query", cur)}
    /\ calls' = [calls EXCEPT ![cur] = Append(@, Call("embedding", "embed_query", cur))]
    /\ pc' = "query_wait"
    /\ UNCHANGED <<cur, nreq, inv, req, collection, docs, retrieved_docs,
                   retrieved_template, prompt, status, trace, svcFailed,
                   result, docx, archive, response>>

\* ... and the nearest documents of the collection are returned.
RetrieveReturn ==
    /\ pc = "query_wait"
    /\ inflight' = inflight \ {Call("embedding", "embed_query", cur)}
    /\ \/ /\ \E rk \in Rankings(Len(collection)) :
                retrieved_docs' = [i \in DOMAIN rk |-> collection[rk[i]]]
          /\ trace' = [trace EXCEPT ![cur] = Append(@, "retrieve")]
          /\ pc' = "guard"
          /\ UNCHANGED <<status, svcFailed, result, response>>
       \/ /\ ServiceFailed(cur, "retrieve")
          /\ UNCHANGED <<retrieved_docs, trace>>
    /\ UNCHANGED <<cur, nreq, inv, req, collection, docs,
                   retrieved_template, prompt, calls, docx, archive>>

\* `if not retrieved_template.strip(): return ...`
GuardPasses(text) == strip(text) # <<>>

\* retrieved_template = "\n\n".join(...); the empty-template guard.
Guard ==
    /\ pc = "guard"
    /\ LET text == join(<<"\n", "\n">>,
                        [i \in DOMAIN retrieved_docs |-> retrieved_docs[i].content])
       IN  /\ retrieved_template' = text
           /\ IF GuardPasses(text)
              THEN /\ pc' = "assemble"
                   /\ UNCHANGED <<status, result, response>>
              ELSE ReturnFallback(cur)
    /\ trace' = [trace EXCEPT ![cur] = Append(@, "guard")]
    /\ UNCHANGED <<cur, nreq, inv, req, collection, docs, retrieved_docs,
                   prompt, inflight, calls, svcFailed, docx, archive>>

\* A mutant of Assemble: the prompt is built from the raw template right
\* after the index is built, without retrieval or guard.
Assemble_eager ==
    /\ pc = "retrieve"
    /\ retrieved_template' = TemplateOf(cur)
    /\ prompt' = format_messages(PromptTemplate(cur),
                    [x \in {"requirement", TemplateVar(cur)} |->
                        IF x = "requirement" THEN req.requirement
                        ELSE TemplateOf(cur)])
    /\ trace' = [trace EXCEPT ![cur] = Append(@, "assemble")]
    /\ pc' = "generate"
    /\ UNCHANGED <<cur, nreq, inv, req, collection, docs, retrieved_docs,
                   inflight, status, calls, svcFailed, result, docx, archive,
                   response>>

\* ChatPromptTemplate.from_template(...).format_messages(requirement=...,
\* <template variable>=retrieved_template)
Assemble ==
    /\ pc = "assemble"
    /\ prompt' = format_messages(PromptTemplate(cur),
                    [x \in {"requirement", TemplateVar(cur)} |->
                        IF x = "requirement" THEN req.requirement
                        ELSE retrieved_template])
    /\ trace' = [trace EXCEPT ![cur] = Append(@, "assemble")]
    /\ pc' = "generate"
    /\ UNCHANGED <<cur, nreq, inv, req, collection, docs, retrieved_docs,
                   retrieved_template, inflight, status, calls, svcFailed,
                   result, docx, archive, response>>

\* llm = ChatOpenAI(model=..., temperature=...); llm.invoke(messages)
GenerateStart ==
    /\ pc = "generate"
    /\ inflight' = inflight \cup {Call("generation", "invoke", cur)}
    /\ calls' = [calls EXCEPT ![cur] = Append(@, Call("generation", "invoke", cur))]
    /\ trace' = [trace EXCEPT ![cur] = Append(@, "generate")]
    /\ pc' = "gen_wait"
    /\ UNCHANGED <<cur, nreq, inv, req, collection, docs, retrieved_docs,
                   retrieved_template, prompt, status, svcFailed, result,
                   docx, archive, response>>

\* return response.content
GenerateReturn ==
    /\ pc = "gen_wait"
    /\ inflight' = inflight \ {Call("generation", "invoke", cur)}
    /\ \/ /\ \E g \in GeneratedTexts : result' = [result EXCEPT ![cur] = g]
          /\ status' = [status EXCEPT ![cur] = "returned"]
          /\ pc' = "returned"
          /\ UNCHANGED <<svcFailed, response>>
       \/ ServiceFailed(cur, "generate")
    /\ UNCHANGED <<cur, nreq, inv, req, collection, docs, retrieved_docs,
                   retrieved_template, prompt, calls, trace, docx, archive>>

-----------------------------------------------------------------------------
(* generate_fs_ts_abapcode, after the first pipeline call *)

\* technical_spec_text is bound; generate_abap_code_from_requirement is called.
CallAbap ==
    /\ pc = "returned"
    /\ cur = "ts"
    /\ cur' = "abap"
    /\ inv' = inv + 1
    /\ docs' = <<>>
    /\ retrieved_docs' = <<>>
    /\ retrieved_template' = <<>>
    /\ prompt' = <<>>
    /\ status' = [status EXCEPT !["abap"] = "running"]
    /\ pc' = "split"
    /\ UNCHANGED <<nreq, req, collection, inflight, calls, trace, svcFailed,
                   result, docx, archive, response>>

\* create_technical_spec_docx / create_abap_code_docx: the text becomes a
\* document written into the buffer.
create_docx(p, text) == <<"docx", p>> \o text

\* abap_code_text is bound; both documents are written.
WriteDocx ==
    /\ pc = "returned"
    /\ cur = "abap"
    /\ docx' = [p \in Pipelines |-> create_docx(p, result[p])]
    /\ cur' = "none"
    /\ pc' = "zip"
    /\ UNCHANGED <<nreq, inv, req, collection, docs, retrieved_docs,
                   retrieved_template, prompt, inflight, status, calls, trace,
                   svcFailed, result, archive, response>>

\* A mutant of zip_entries: only the code document is written, under the
\* name of the technical spec.
zip_entries_same_name(ts_doc, abap_doc) ==
    << [name |-> EntryName("ts"), data |-> abap_doc] >>

\* zipf.writestr("technical_spec.docx", ...); zipf.writestr("abap_code.docx", ...)
zip_entries(ts_doc, abap_doc) ==
    << [name |-> EntryName("ts"), data |-> ts_doc],
       [name |-> EntryName("abap"), data |-> abap_doc] >>

ZipBundle ==
    /\ pc = "zip"
    /\ archive' = zip_entries(docx["ts"], docx["abap"])
    /\ pc' = "respond"
    /\ UNCHANGED <<cur, nreq, inv, req, collection, docs, retrieved_docs,
                   retrieved_template, prompt, inflight, status, calls, trace,
                   svcFailed, result, docx, response>>

\* return StreamingResponse(zip_buffer, ...)
Respond ==
    /\ pc = "respond"
    /\ response' = "zip"
    /\ pc' = "responded"
    /\ UNCHANGED <<cur, nreq, inv, req, collection, docs, retrieved_docs,
                   retrieved_template, prompt, inflight, status, calls, trace,
                   svcFailed, result, docx, archive>>

build_template_retriever ==
    \/ SplitDocuments
    \/ EmbedDocumentsStart
    \/ EmbedDocumentsReturn
    \/ Upsert

Pipeline ==
    \/ build_template_retriever
    \/ RetrieveStart
    \/ RetrieveReturn
    \/ Guard
    \/ Assemble
    \/ GenerateStart
    \/ GenerateReturn

generate_fs_ts_abapcode ==
    \/ ReceiveRequest
    \/ CallAbap
    \/ WriteDocx
    \/ ZipBundle
    \/ Respond

Next == Pipeline \/ generate_fs_ts_abapcode

Spec == Init /\ [][Next]_vars

-----------------------------------------------------------------------------
(* Vocabulary of the properties *)

Finished(p) == status[p] \in {"returned", "fallback", "raised"}

CallCount(p, svc) == Cardinality({i \in DOMAIN calls[p] : calls[p][i].svc = svc})

OpCount(p, op) == Cardinality({i \in DOMAIN calls[p] : calls[p][i].op = op})

Steps(p) == {trace[p][i] : i \in DOMAIN trace[p]}

IsPrefix(s, t) == Len(s) <= Len(t) /\ s = SubSeq(t, 1, Len(s))

Blank(text) == strip(text) = <<>>

\* text occurs in s at position i
OccursAt(text, s, i) ==
    /\ i >= 1
    /\ i + Len(text) - 1 <= Len(s)
    /\ SubSeq(s, i, i + Len(text) - 1) = text

StepOrder == <<"build_index", "retrieve", "guard", "assemble", "generate">>

-----------------------------------------------------------------------------
\* C1 (as stated): every finished invocation of a pipeline function has made
\* exactly one generation call, or none when the empty-template guard
\* triggered and the fallback message was returned; never more than one.
C1_ExactlyOneGenerationCall ==
    \A p \in Pipelines :
        /\ CallCount(p, "generation") <= 1
        /\ Finished(p) =>
              \/ CallCount(p, "generation") = 1
              \/ CallCount(p, "generation") = 0 /\ status[p] = "fallback"

\* C1 (amended): an invocation makes at most one generation call; one that
\* returns a generated text has made exactly one; it has made none only when
\* the guard triggered and the fallback message was returned, or when it
\* ended in a failure raised before the generation step.
C1_AtMostOneGenerationCall ==
    \A p \in Pipelines :
        /\ CallCount(p, "generation") <= 1
        /\ status[p] = "returned" =>
              CallCount(p, "generation") = 1 /\ result[p] \in GeneratedTexts
        /\ status[p] = "fallback" =>
              CallCount(p, "generation") = 0 /\ result[p] = FallbackMessage(p)
        /\ (Finished(p) /\ CallCount(p, "generation") = 0) =>
              \/ status[p] = "fallback"
              \/ status[p] = "raised" /\ "generate" \notin Steps(p)

C1_Witness ==
    /\ status["ts"] = "returned" /\ CallCount("ts", "generation") = 1
    /\ status["abap"] = "raised" /\ CallCount("abap", "generation") = 0
    /\ svcFailed["abap"]

\* C2 (as stated): for a template consisting only of whitespace the pipeline
\* function returns its fallback message as a normal result and never calls
\* the generation service.
C2_WhitespaceTemplateFallback ==
    \A p \in Pipelines :
        (status[p] # "not_started" /\ Blank(TemplateOf(p))) =>
            /\ CallCount(p, "generation") = 0
            /\ Finished(p) =>
                  status[p] = "fallback" /\ result[p] = FallbackMessage(p)

\* C3 (as stated): for a template shorter than the segment size limit the
\* retrieved template text of the invocation equals the template unchanged.
C3_RetrievedEqualsTemplate ==
    (/\ cur \in Pipelines
     /\ "guard" \in Steps(cur)
     /\ Len(TemplateOf(cur)) < chunk_size)
        => retrieved_template = TemplateOf(cur)

\* C4 (as stated): the documents retrieved in an invocation are segments
\* indexed by that same invocation, never by an earlier one.
C4_RetrievedOnlyOwnSegments ==
    \A i \in DOMAIN retrieved_docs : retrieved_docs[i].owner = inv

\* C5: within an invocation the steps occur in the order build index,
\* retrieve, guard, assemble, generate; the generation call starts only
\* after the embedding calls have returned and the guard has passed; and at
\* most one network call is in flight at any time.
C5_StepsInOrder ==
    /\ \A p \in Pipelines : IsPrefix(trace[p], StepOrder)
    /\ Cardinality(inflight) <= 1
    /\ \A c \in inflight : c.svc = "generation" =>
          /\ cur \in Pipelines
          /\ trace[cur] = StepOrder
          /\ ~Blank(retrieved_template)
          /\ OpCount(cur, "embed_query") = 1
          /\ calls[cur][Len(calls[cur])].op = "invoke"

C5_Witness ==
    /\ pc = "gen_wait"
    /\ cur = "abap"
    /\ \E c \in inflight : c.svc = "generation"
    /\ OpCount("abap", "embed_documents") = 1

\* C6 (as stated): a failed service call ends the invocation as a failure
\* with no text returned in its place, and each service is called at most
\* once per invocation.
C6_EachServiceOnce ==
    \A p \in Pipelines :
        /\ svcFailed[p] => status[p] = "raised" /\ result[p] = NoText
        /\ CallCount(p, "embedding") <= 1
        /\ CallCount(p, "generation") <= 1

\* C6 (amended): a failed service call ends the invocation and the request
\* as a failure with no text returned in its place, and no call is repeated:
\* per invocation the embedding service is called at most twice, once for
\* the segments and once for the query, and the generation service at most
\* once.
C6_FailurePropagatesNoRetry ==
    \A p \in Pipelines :
        /\ svcFailed[p] =>
              /\ status[p] = "raised"
              /\ result[p] = NoText
              /\ response = "error"
              /\ pc = "failed"
              /\ archive = <<>>
        /\ OpCount(p, "embed_documents") <= 1
        /\ OpCount(p, "embed_query") <= 1
        /\ OpCount(p, "invoke") <= 1
        /\ CallCount(p, "embedding") <= 2

C6_Witness ==
    /\ svcFailed["abap"]
    /\ OpCount("abap", "invoke") = 1
    /\ CallCount("abap", "embedding") = 2

\* C7: every generation call carries temperature 0.2 when made by the code
\* pipeline and 0.4 when made by the technical-spec pipeline, and the model
\* identifier gpt-4o in both.
C7_TemperaturePerPipeline ==
    /\ \A p \in Pipelines : \A i \in DOMAIN calls[p] :
          calls[p][i].svc = "generation" =>
              /\ calls[p][i].temperature = (IF p = "abap" THEN "0.2" ELSE "0.4")
              /\ calls[p][i].model = "gpt-4o"
    /\ \A c \in inflight : c.svc = "generation" =>
          /\ c.temperature = (IF cur = "abap" THEN "0.2" ELSE "0.4")
          /\ c.model = "gpt-4o"

C7_Witness ==
    /\ CallCount("ts", "generation") = 1
    /\ CallCount("abap", "generation") = 1

\* C8: when both pipelines return, the archive of the response holds exactly
\* two entries, technical_spec.docx and abap_code.docx.
C8_ArchiveHasTwoEntries ==
    /\ Len(archive) \in {0, 2}
    /\ response = "zip" =>
          /\ Len(archive) = 2
          /\ archive[1].name = "technical_spec.docx"
          /\ archive[2].name = "abap_code.docx"
          /\ archive[1].data = docx["ts"]
          /\ archive[2].data = docx["abap"]

C8_Witness ==
    /\ response = "zip"
    /\ status["ts"] = "returned"
    /\ status["abap"] = "returned"

\* C9: the assembled prompt contains the requirement and the retrieved
\* template text literally, as contiguous runs, the requirement first.
C9_PromptContainsInputs ==
    (cur \in Pipelines /\ "assemble" \in Steps(cur)) =>
        \E i, j \in 1..(Len(prompt) + 1) :
            /\ OccursAt(req.requirement, prompt, i)
            /\ OccursAt(retrieved_template, prompt, j)
            /\ i + Len(req.requirement) <= j

C9_Witness ==
    /\ cur \in Pipelines
    /\ "assemble" \in Steps(cur)
    /\ \E i \in DOMAIN req.requirement : req.requirement[i] = "{"
    /\ \E i \in DOMAIN retrieved_template : retrieved_template[i] = "{"

\* C10: the code pipeline starts only after the technical-spec pipeline has
\* returned; when the technical-spec pipeline fails the code pipeline is not
\* invoked and no archive is produced; a fallback message is an ordinary
\* return, after which the handler goes on, and a request that is answered
\* has both entries in its archive.
C10_PipelinesInSequence ==
    /\ status["abap"] # "not_started" => status["ts"] \in {"returned", "fallback"}
    /\ status["ts"] = "raised" =>
          /\ status["abap"] = "not_started"
          /\ archive = <<>>
          /\ response = "error"
    /\ (status["ts"] = "fallback" /\ response = "error") => status["abap"] = "raised"
    /\ status["abap"] = "fallback" => response # "error"
    /\ response = "zip" =>
          /\ \A p \in Pipelines : status[p] \in {"returned", "fallback"}
          /\ Len(archive) = 2

C10_Witness ==
    /\ response = "zip"
    /\ status["ts"] = "fallback"
    /\ status["abap"] = "returned"
    /\ Len(archive) = 2

====
